---- MODULE Spec2Model ----
(***************************************************************************)
(* Conway's Game of Life on a torus: the Universe of src/main.rs           *)
(* (Universe::new, Universe::tick, Universe::live_neighbor_count) and the  *)
(* three handlers of the App component that touch it: the interval         *)
(* callback (tick), the restart handler and the render read.               *)
(*                                                                         *)
(* The flattened buffer `cells: Vec<bool>` is a sequence of BOOLEAN; the   *)
(* code's 0-based index idx is the sequence position idx + 1.              *)
(***************************************************************************)
EXTENDS Integers, Sequences, FiniteSets

\* Largest number of cells (width * height) of the grids of Spec and SpecAnyDims.
MaxCells == 8
\* Largest number of cells of the grids of SpecEngine (3x3 is among them).
MaxEngineCells == 9
\* Largest number of cells of the grids of SpecTwin.
MaxTwinCells == 6
\* The generation counters saturate here: the value MaxGen reads "MaxGen or more".
MaxGen == 3
\* Largest width and height of the grids of SpecBlock.
MaxBlockDim == 5

VARIABLES
    width,      \* Universe.width
    height,     \* Universe.height
    cells,      \* Universe.cells, row-major
    panicked,   \* a handler hit an out-of-bounds index or an arithmetic fault
    op,         \* the handler that ran last: "new", "tick", "restart", "render"
    rngCalls,   \* number of random_bool() calls made by the handler that ran last
    seed,       \* history: the buffer Universe::new returned for the current grid
    gen,        \* history: ticks applied to seed so far, saturating at MaxGen
    view,       \* the frame rendered from the current signal value, if any
    twin,       \* a second Universe with the same dimensions (SpecTwin only)
    twinGen     \* history: ticks applied to twin, saturating at MaxGen

vars == <<width, height, cells, panicked, op, rngCalls, seed, gen, view, twin, twinGen>>

----------------------------------------------------------------------------
(* Universe::live_neighbor_count *)

\* `[self.height - 1, 0, 1]` and `[self.width - 1, 0, 1]`
deltas(n) == <<n - 1, 0, 1>>

\* The nested loops visit nine (delta_row, delta_col) pairs; pass k of 1..9
\* has these two.
delta_row(h, k) == deltas(h)[((k - 1) \div 3) + 1]
delta_col(w, k) == deltas(w)[((k - 1) % 3) + 1]

\* A skip that never fires: the cell itself is counted as well.
skip_never(d_row, d_col) == FALSE

\* `if delta_row == 0 && delta_col == 0 { continue; }`
skip(d_row, d_col) == d_row = 0 /\ d_col = 0

\* A neighbour row or column taken without the modulo.
wrap_missing(pos, delta, n) == pos + delta

\* A neighbour row or column clamped at the border: the far edge is not adjacent.
wrap_clamped(pos, delta, n) ==
    IF delta = n - 1
    THEN (IF pos = 0 THEN 0 ELSE pos - 1)
    ELSE (IF pos + delta > n - 1 THEN n - 1 ELSE pos + delta)

\* `(row + delta_row) % self.height`, `(col + delta_col) % self.width`
wrap(pos, delta, n) == (pos + delta) % n

\* `let idx = neighbor_row * self.width + neighbor_col` of pass k.
neighbor_idx(w, h, row, col, k) ==
    wrap(row, delta_row(h, k), h) * w + wrap(col, delta_col(w, k), w)

\* `self.cells[idx]` is a bounds-checked read.
in_bounds(c, idx) == idx >= 0 /\ idx < Len(c)

\* What pass k adds to count: nothing when skipped, else `self.cells[idx] as u8`.
pass_count(w, h, c, row, col, k) ==
    IF skip(delta_row(h, k), delta_col(w, k)) THEN 0
    ELSE IF in_bounds(c, neighbor_idx(w, h, row, col, k))
              /\ c[neighbor_idx(w, h, row, col, k) + 1]
         THEN 1 ELSE 0

\* count after the nine passes (at most 8 are added: no u8 overflow).
live_neighbor_count(w, h, c, row, col) ==
      pass_count(w, h, c, row, col, 1) + pass_count(w, h, c, row, col, 2)
    + pass_count(w, h, c, row, col, 3) + pass_count(w, h, c, row, col, 4)
    + pass_count(w, h, c, row, col, 5) + pass_count(w, h, c, row, col, 6)
    + pass_count(w, h, c, row, col, 7) + pass_count(w, h, c, row, col, 8)
    + pass_count(w, h, c, row, col, 9)

----------------------------------------------------------------------------
(* Universe::tick *)

\* Survival with exactly two neighbours only.
next_state_s2(alive, live_neighbors) ==
    IF alive /\ live_neighbors < 2 THEN FALSE
    ELSE IF alive /\ live_neighbors = 2 THEN TRUE
    ELSE IF alive /\ live_neighbors > 2 THEN FALSE
    ELSE IF ~alive /\ live_neighbors = 3 THEN TRUE
    ELSE alive

\* The match of tick, arm by arm, first match wins.
next_state(alive, live_neighbors) ==
    IF alive /\ live_neighbors < 2 THEN FALSE
    ELSE IF alive /\ (live_neighbors = 2 \/ live_neighbors = 3) THEN TRUE
    ELSE IF alive /\ live_neighbors > 3 THEN FALSE
    ELSE IF ~alive /\ live_neighbors = 3 THEN TRUE
    ELSE alive

\* Counting on the buffer being written (an in-place update).
count_source_in_place(current, next) == next

\* `self.live_neighbor_count(row, col)` and `self.cells[idx]` read self.cells,
\* which tick does not write before its last line.
count_source(current, next) == current

RECURSIVE tick_cols(_, _, _, _, _, _)
\* `for col in 0..self.width { ... }` of one row, from column col on.
tick_cols(w, h, c, next, row, col) ==
    IF col >= w THEN next
    ELSE LET idx == row * w + col
             src == count_source(c, next)
             live_neighbors == live_neighbor_count(w, h, src, row, col)
         IN  tick_cols(w, h, c,
                       [next EXCEPT ![idx + 1] = next_state(src[idx + 1], live_neighbors)],
                       row, col + 1)

RECURSIVE tick_rows(_, _, _, _, _)
\* `for row in 0..self.height { ... }`, from row on.
tick_rows(w, h, c, next, row) ==
    IF row >= h THEN next
    ELSE tick_rows(w, h, c, tick_cols(w, h, c, next, row, 0), row + 1)

\* The loop left after its first row: a generation installed half-way.
tick_first_row(w, h, c) == IF h >= 1 THEN tick_cols(w, h, c, c, 0, 0) ELSE c

\* `let mut next = self.cells.clone(); ...; self.cells = next;`
tick(w, h, c) == tick_rows(w, h, c, c, 0)

\* Every index tick computes: its own `idx` and those of live_neighbor_count.
tick_indices(w, h) ==
    UNION { {row * w + col}
            \cup { neighbor_idx(w, h, row, col, k) :
                     k \in { p \in 1..9 : ~skip(delta_row(h, p), delta_col(w, p)) } } :
            row \in 0..(h - 1), col \in 0..(w - 1) }

\* tick panics when an index is out of bounds or `width - 1` / `height - 1`
\* underflows in a call of live_neighbor_count.
tick_panics(w, h, c) ==
    \/ \E idx \in tick_indices(w, h) : ~in_bounds(c, idx)
    \/ \E row \in 0..(h - 1), col \in 0..(w - 1) : w - 1 < 0 \/ h - 1 < 0

----------------------------------------------------------------------------
(* Universe::new *)

\* One sample too few per row.
new_cells_short(w, h) == [1..(w * (h - 1)) -> BOOLEAN]

\* `(0..width * height).map(|_| random_bool()).collect()`: every outcome.
new_cells(w, h) == [1..(w * h) -> BOOLEAN]

\* What the view shows of one cell.
cell_class(alive) == IF alive THEN "cell alive" ELSE "cell dead"

\* The rsx! of App: the grid template and one div per cell.
frame(w, h, c) ==
    [columns |-> w, rows |-> h, classes |-> [i \in 1..Len(c) |-> cell_class(c[i])]]

NoFrame == [columns |-> 0, rows |-> 0, classes |-> <<"stale">>]
NoTwin == <<>>

Saturate(n) == IF n < MaxGen THEN n + 1 ELSE MaxGen

----------------------------------------------------------------------------
(* The handlers *)

\* `use_signal(|| Universe::new(w, h))` for the dimensions in dims.
InitWith(dims) ==
    /\ \E d \in dims :
         /\ width = d[1]
         /\ height = d[2]
         /\ cells \in new_cells(d[1], d[2])
         /\ rngCalls = d[1] * d[2]
    /\ seed = cells
    /\ gen = 0
    /\ panicked = FALSE
    /\ op = "new"
    /\ view = NoFrame
    /\ twin = NoTwin
    /\ twinGen = 0

\* The (width, height) pairs from lo up with at most n cells.
Dims(lo, n) == { d \in (lo..n) \X (lo..n) : d[1] * d[2] <= n }

ValidDims == Dims(1, MaxCells)
AnyDims == Dims(0, MaxCells)

Init == InitWith(ValidDims)

\* A tick that re-draws the first cell from the randomness source.
TickRandom ==
    /\ ~panicked
    /\ Len(cells) >= 1
    /\ \E b \in BOOLEAN : cells' = [tick(width, height, cells) EXCEPT ![1] = b]
    /\ gen' = Saturate(gen)
    /\ op' = "tick"
    /\ rngCalls' = 1
    /\ view' = NoFrame
    /\ UNCHANGED <<width, height, panicked, seed, twin, twinGen>>

\* The interval callback: `universe.write().tick()`.
Tick ==
    /\ ~panicked
    /\ IF tick_panics(width, height, cells)
       THEN /\ panicked' = TRUE
            /\ UNCHANGED <<cells, gen>>
       ELSE /\ cells' = tick(width, height, cells)
            /\ gen' = Saturate(gen)
            /\ UNCHANGED panicked
    /\ op' = "tick"
    /\ rngCalls' = 0
    /\ view' = NoFrame
    /\ UNCHANGED <<width, height, seed, twin, twinGen>>

\* The restart handler: `universe.set(Universe::new(128, 128))`, the same
\* dimensions as at start-up.
Restart ==
    /\ ~panicked
    /\ cells' \in new_cells(width, height)
    /\ seed' = cells'
    /\ gen' = 0
    /\ op' = "restart"
    /\ rngCalls' = width * height
    /\ view' = NoFrame
    /\ UNCHANGED <<width, height, panicked, twin, twinGen>>

\* The view: reads universe().width, universe().height and universe().cells.
\* It runs when the signal was written since the last frame.
Render ==
    /\ ~panicked
    /\ view = NoFrame
    /\ view' = frame(width, height, cells)
    /\ op' = "render"
    /\ rngCalls' = 0
    /\ UNCHANGED <<width, height, cells, panicked, seed, gen, twin, twinGen>>

\* tick on the second Universe of SpecTwin.
TickTwin ==
    /\ ~panicked
    /\ twin # NoTwin
    /\ IF tick_panics(width, height, twin)
       THEN /\ panicked' = TRUE
            /\ UNCHANGED <<twin, twinGen>>
       ELSE /\ twin' = tick(width, height, twin)
            /\ twinGen' = Saturate(twinGen)
            /\ UNCHANGED panicked
    /\ UNCHANGED <<width, height, cells, op, rngCalls, seed, gen, view>>

Next == Tick \/ Restart \/ Render

Spec == Init /\ [][Next]_vars

\* The engine alone, without restarts, on every grid of at most MaxEngineCells.
InitEngine == InitWith(Dims(1, MaxEngineCells))
NextEngine == Tick \/ Render
SpecEngine == InitEngine /\ [][NextEngine]_vars

\* Universe::new called with any dimensions, zero included.
InitAnyDims == InitWith(AnyDims)
SpecAnyDims == InitAnyDims /\ [][Next]_vars

\* Two Universes with identical width, height and cells (`#[derive(Clone)]`).
InitTwin ==
    /\ \E d \in Dims(1, MaxTwinCells) :
         /\ width = d[1]
         /\ height = d[2]
         /\ cells \in new_cells(d[1], d[2])
         /\ rngCalls = d[1] * d[2]
    /\ seed = cells
    /\ twin = cells
    /\ gen = 0
    /\ twinGen = 0
    /\ panicked = FALSE
    /\ op = "new"
    /\ view = NoFrame
NextTwin == Tick \/ TickTwin
SpecTwin == InitTwin /\ [][NextTwin]_vars

\* A 2x2 block with its top-left cell at (r, c), wrapping at the edges.
BlockCells(w, h, r, c) ==
    [i \in 1..(w * h) |->
        /\ ((i - 1) \div w) \in {r, (r + 1) % h}
        /\ ((i - 1) % w) \in {c, (c + 1) % w}]

\* One outcome of Universe::new on a grid of at least 4x4: a lone 2x2 block.
InitBlock ==
    /\ \E w \in 4..MaxBlockDim, h \in 4..MaxBlockDim :
         /\ width = w
         /\ height = h
         /\ \E r \in 0..(h - 1), c \in 0..(w - 1) : cells = BlockCells(w, h, r, c)
         /\ rngCalls = w * h
    /\ seed = cells
    /\ gen = 0
    /\ panicked = FALSE
    /\ op = "new"
    /\ view = NoFrame
    /\ twin = NoTwin
    /\ twinGen = 0
NextBlock == Tick \/ Render
SpecBlock == InitBlock /\ [][NextBlock]_vars

----------------------------------------------------------------------------
(* Reference definitions for the properties *)

Rows == 0..(height - 1)
Cols == 0..(width - 1)

\* The eight offsets around a cell.
Offsets == { o \in {-1, 0, 1} \X {-1, 0, 1} : o # <<0, 0>> }

\* The buffer position (1-based) of the cell at (row, col) taken on the torus.
TorusPos(row, col) == ((row + height) % height) * width + ((col + width) % width) + 1

\* 1 when the cell of c at (row, col), taken on the torus, is alive.
Alive01(c, row, col) == IF c[TorusPos(row, col)] THEN 1 ELSE 0

\* The sum over the eight offsets of the state of the wrapped cell.
EightOffsetSum(c, row, col) ==
      Alive01(c, row - 1, col - 1) + Alive01(c, row - 1, col) + Alive01(c, row - 1, col + 1)
    + Alive01(c, row, col - 1) + Alive01(c, row, col + 1)
    + Alive01(c, row + 1, col - 1) + Alive01(c, row + 1, col) + Alive01(c, row + 1, col + 1)

Count(c, row, col) == live_neighbor_count(width, height, c, row, col)

\* B3/S23 on the counts of the buffer c.
B3S23(c, row, col) ==
    LET alive == c[row * width + col + 1]
        n == Count(c, row, col)
    IN  (alive /\ (n = 2 \/ n = 3)) \/ (~alive /\ n = 3)

\* One whole generation computed from c alone.
Generation(c) ==
    [i \in 1..Len(c) |-> B3S23(c, (i - 1) \div width, (i - 1) % width)]

RECURSIVE Generations(_, _)
Generations(c, k) == IF k = 0 THEN c ELSE Generation(Generations(c, k - 1))

----------------------------------------------------------------------------
(* The properties *)

\* C1: in every state reached from Universe::new(width, height) with
\* width >= 1 and height >= 1 by ticks and restarts, the cell buffer has
\* exactly width * height entries.
C1_SizeInvariant == Len(cells) = width * height

C1_Witness ==
    /\ op = "tick" /\ gen >= 2
    /\ width >= 2 /\ height >= 2
    /\ Len(cells) = width * height

\* C2: a tick is a synchronous B3/S23 update: every cell is alive afterwards
\* exactly when it was alive with 2 or 3 live neighbours or dead with 3, all
\* counts being taken on the buffer as it was before the tick.
C2_TickIsB3S23 ==
    [][(op' = "tick" /\ ~panicked') =>
          \A row \in Rows, col \in Cols :
              cells'[row * width + col + 1] = B3S23(cells, row, col)]_vars

C2_Witness ==
    /\ op = "tick" /\ gen = 1
    /\ \E i \in 1..Len(cells) : seed[i] /\ ~cells[i]
    /\ \E j \in 1..Len(cells) : ~seed[j] /\ cells[j]
    /\ \E k \in 1..Len(cells) : seed[k] /\ cells[k]

\* C3 as stated: live_neighbor_count is the sum, over the eight offsets other
\* than (0, 0), of the state of the wrapped cell; only the offset (0, 0) is
\* skipped, also when width or height is 1.
C3_CountIsEightOffsetSum ==
    \A row \in Rows, col \in Cols : Count(cells, row, col) = EightOffsetSum(cells, row, col)

\* C4 as stated: Universe::new rejects a zero width or height, so no grid
\* with a zero dimension exists.
C4_ZeroDimensionRejected == width >= 1 /\ height >= 1

\* C5: on every valid grid, degenerate ones included, live_neighbor_count
\* returns a value in 0..8 for every cell.
C5_CountInRange ==
    \A row \in Rows, col \in Cols :
        Count(cells, row, col) >= 0 /\ Count(cells, row, col) <= 8

C5_Witness ==
    /\ op = "tick"
    /\ width = 2 /\ height = 3
    /\ \E row \in Rows, col \in Cols : Count(cells, row, col) = 8

\* C6: toroidal wrap. A live cell at (height-1, width-1) is counted by (0, 0);
\* a live cell at any of the eight wrapped offsets of a cell makes that cell's
\* count at least 1; and on grids of at least 3x3 the count is the number of
\* live cells among the eight distinct wrapped neighbours, whatever the state
\* of the cell itself.
C6_ToroidalWrap ==
    /\ cells[TorusPos(height - 1, width - 1)] => Count(cells, 0, 0) >= 1
    /\ \A row \in Rows, col \in Cols : \A o \in Offsets :
           cells[TorusPos(row + o[1], col + o[2])] => Count(cells, row, col) >= 1
    /\ (width >= 3 /\ height >= 3) =>
           \A row \in Rows, col \in Cols :
               LET around == { TorusPos(row + o[1], col + o[2]) : o \in Offsets }
                   self == TorusPos(row, col)
               IN  /\ Cardinality(around) = 8
                   /\ Count(cells, row, col) = Cardinality({ p \in around : cells[p] })
                   /\ Count([cells EXCEPT ![self] = ~cells[self]], row, col)
                        = Count(cells, row, col)

C6_Witness ==
    /\ width >= 3 /\ height >= 3
    /\ cells[TorusPos(height - 1, width - 1)]
    /\ cells[TorusPos(0, 0)]
    /\ Count(cells, 0, 0) = 3
    /\ op = "tick"

C8_BlockIsStill == cells = seed

C8_Witness ==
    /\ op = "tick" /\ gen >= 2
    /\ cells[1] /\ cells[width] /\ cells[(height - 1) * width + 1] /\ cells[width * height]
    /\ cells = seed

\* C9: whatever the interleaving of the interval callback, the restart
\* handler and the render, the buffer a handler finds, and the frame the
\* render shows, is a whole generation: the buffer Universe::new returned
\* or the result of whole generations applied to it.
C9_WholeGeneration ==
    /\ gen < MaxGen => cells = Generations(seed, gen)
    /\ (view # NoFrame /\ gen < MaxGen) =>
           view = frame(width, height, Generations(seed, gen))

C9_Witness ==
    /\ op = "render" /\ gen = 2
    /\ view = frame(width, height, cells)
    /\ cells # seed
    /\ cells # Generation(seed)

\* C10: tick is total on valid grids. Every index it computes lies in
\* 0 .. width * height - 1, width - 1 and height - 1 do not go below zero, no
\* tick has panicked and a further tick can be taken.
C10_TickTotal ==
    /\ ~panicked
    /\ width - 1 >= 0 /\ height - 1 >= 0
    /\ \A idx \in tick_indices(width, height) : idx >= 0 /\ idx < width * height
    /\ ENABLED Tick

C10_Witness ==
    /\ op = "tick" /\ gen = MaxGen
    /\ ~panicked
    /\ width = 1 /\ height >= 2
    /\ \E i \in 1..Len(cells) : cells[i]

====
